---- MODULE Spec2Model ----
(***************************************************************************)
(* Model of the bar-chart visual of src/visual.ts: the rendered bars       *)
(* (one <rect class="bar"> per category), the redraw (update), the click   *)
(* handler with its asynchronous host selection call, and the selection    *)
(* synchronizer (syncSelectionState).                                      *)
(*                                                                         *)
(* Opacities are percentages: 100 is the CSS value 1, 50 is 0.5.           *)
(* The callbacks of the visual run on one JavaScript thread, so every      *)
(* handler is one atomic action.                                           *)
(***************************************************************************)
EXTENDS Integers, Sequences, FiniteSets, TLC

\* ---------------------------------------------------------------- bounds
\* Largest number of categories in a data view.
MaxCats == 2
\* Number of redraws (update calls) explored.
MaxRedraws == 2
\* Number of clicks explored.
MaxClicks == 2
\* Longest selection set the host resolves with.
MaxSel == 2

\* ------------------------------------------------------------- constants
\* style("opacity", 1)
OpacityFull == 100
\* isSelected ? 1 : 0.5
OpacityDimmed == 50
\* A rect that was appended without any opacity style.
NoStyle == -1

\* Category values the host may deliver, and the rows (category value, revenue)
\* of a data view.
Countries == {"DE", "FR"}
Rows == {[country |-> "DE", value |-> 10], [country |-> "FR", value |-> 20]}

\* Host-issued selection identifiers: withCategory(categories[0], i) identifies
\* the category value at index i, so there is one identifier per category value.
Ids == Countries

\* Sequences over S of length at most n.
SeqsUpTo(S, n) == UNION {[1..k -> S] : k \in 0..n}

Range(s) == {s[i] : i \in DOMAIN s}

\* The categorical data of options.dataViews[0]: one row per category.
DataViews == SeqsUpTo(Rows, MaxCats)

\* Values of the ISelectionId[] the select promise resolves with.
SelectionSets == SeqsUpTo(Ids, MaxSel)

\* ----------------------------------------------------------------- state
VARIABLES
    includes,   \* the host's ISelectionId.includes relation: <<a, b>> iff a.includes(b)
    gen,        \* number of redraws so far; names the render pass of a node
    dom,        \* the rects attached under visualSVG, in document order
    nodes,      \* every rect created so far -> its bound datum and opacity style
    dataView,   \* the categorical data of the latest update
    pending,    \* select() promises not yet settled, oldest first
    hostSel,    \* the selection set the host last resolved with
    nClicks,    \* click handlers run
    nResolved,  \* select() promises fulfilled
    nSyncs,     \* syncSelectionState invocations
    lastSync,   \* arguments of the latest syncSelectionState invocation
    before,     \* nodes and dom as they were when that invocation started
    calls       \* direct invocations made by SpecSync

vars == <<includes, gen, dom, nodes, dataView, pending, hostSel,
          nClicks, nResolved, nSyncs, lastSync, before, calls>>

\* An argument that is undefined (or null): !barSelection, !selectionIds.
UndefinedBars == [defined |-> FALSE, bars |-> {}]
UndefinedIds == [defined |-> FALSE, ids |-> <<>>]
Bars(b) == [defined |-> TRUE, bars |-> b]
IdList(s) == [defined |-> TRUE, ids |-> s]

NoSync == [called |-> FALSE, barSelection |-> UndefinedBars,
           selectionIds |-> UndefinedIds, clickGen |-> 0, runGen |-> 0]
NoBefore == [nodes |-> <<>>, dom |-> <<>>]

\* The opacity a rect is displayed with: a rect without the style is opaque.
Emphasis(n) == IF nodes[n].opacity = NoStyle THEN OpacityFull ELSE nodes[n].opacity

\* selectAll(".bar"): the bars attached to the document.
SelectAllBar == Range(dom)

\* host.createSelectionIdBuilder().withCategory(categories[0], i).createSelectionId()
CreateSelectionId(categories, categoryIndex) == categories[categoryIndex].country

\* Variant: the containment test is asked the other way round,
\* selectionId.includes(currentSelectionId).
IsSelectedSwapped(selectionIds, selectionId) ==
    \E k \in DOMAIN selectionIds : <<selectionId, selectionIds[k]>> \in includes

\* selectionIds.some(currentSelectionId => currentSelectionId.includes(selectionId))
IsSelected(selectionIds, selectionId) ==
    \E k \in DOMAIN selectionIds : <<selectionIds[k], selectionId>> \in includes

\* Variant: the branch for an empty selection set is missing, so the loop runs
\* with a some() that finds nothing.
SyncWithoutEmptyCase(barSelection, selectionIds) ==
    IF ~barSelection.defined \/ ~selectionIds.defined
    THEN [nodes |-> nodes, dom |-> dom, selectionIds |-> selectionIds]
    ELSE [nodes |-> [n \in DOMAIN nodes |->
                        IF n \in barSelection.bars
                        THEN [nodes[n] EXCEPT !.opacity =
                                 IF IsSelected(selectionIds.ids, nodes[n].selectionId)
                                 THEN OpacityFull ELSE OpacityDimmed]
                        ELSE nodes[n]],
          dom |-> dom, selectionIds |-> selectionIds]

\* Variant: the guard reads !barSelection && !selectionIds. An undefined
\* barSelection then reaches the empty-selection branch, which does not use it;
\* the other half-defined calls throw before they change anything.
SyncGuardAnd(barSelection, selectionIds) ==
    IF ~barSelection.defined /\ selectionIds.defined /\ Len(selectionIds.ids) = 0
    THEN [nodes |-> [n \in DOMAIN nodes |->
                        IF n \in SelectAllBar
                        THEN [nodes[n] EXCEPT !.opacity = OpacityFull]
                        ELSE nodes[n]],
          dom |-> dom, selectionIds |-> selectionIds]
    ELSE IF ~barSelection.defined \/ ~selectionIds.defined
    THEN [nodes |-> nodes, dom |-> dom, selectionIds |-> selectionIds]
    ELSE IF Len(selectionIds.ids) = 0
    THEN [nodes |-> [n \in DOMAIN nodes |->
                        IF n \in SelectAllBar
                        THEN [nodes[n] EXCEPT !.opacity = OpacityFull]
                        ELSE nodes[n]],
          dom |-> dom, selectionIds |-> selectionIds]
    ELSE [nodes |-> [n \in DOMAIN nodes |->
                        IF n \in barSelection.bars
                        THEN [nodes[n] EXCEPT !.opacity =
                                 IF IsSelected(selectionIds.ids, nodes[n].selectionId)
                                 THEN OpacityFull ELSE OpacityDimmed]
                        ELSE nodes[n]],
          dom |-> dom, selectionIds |-> selectionIds]

\* Variant: a bar that is not selected is removed (currentBar.remove()) and its
\* datum zeroed instead of being dimmed.
SyncRemovingUnselected(barSelection, selectionIds) ==
    IF ~barSelection.defined \/ ~selectionIds.defined
    THEN [nodes |-> nodes, dom |-> dom, selectionIds |-> selectionIds]
    ELSE IF Len(selectionIds.ids) = 0
    THEN [nodes |-> [n \in DOMAIN nodes |->
                        IF n \in SelectAllBar
                        THEN [nodes[n] EXCEPT !.opacity = OpacityFull]
                        ELSE nodes[n]],
          dom |-> dom, selectionIds |-> selectionIds]
    ELSE [nodes |-> [n \in DOMAIN nodes |->
                        IF n \in barSelection.bars
                        THEN IF IsSelected(selectionIds.ids, nodes[n].selectionId)
                             THEN [nodes[n] EXCEPT !.opacity = OpacityFull]
                             ELSE [nodes[n] EXCEPT !.value = 0]
                        ELSE nodes[n]],
          dom |-> SelectSeq(dom, LAMBDA n :
                      n \notin barSelection.bars
                      \/ IsSelected(selectionIds.ids, nodes[n].selectionId)),
          selectionIds |-> selectionIds]

\* Variant: a bar that is not selected gets half of the opacity it is shown
\* with, instead of the fixed 0.5.
SyncHalving(barSelection, selectionIds) ==
    IF ~barSelection.defined \/ ~selectionIds.defined
    THEN [nodes |-> nodes, dom |-> dom, selectionIds |-> selectionIds]
    ELSE IF Len(selectionIds.ids) = 0
    THEN [nodes |-> [n \in DOMAIN nodes |->
                        IF n \in SelectAllBar
                        THEN [nodes[n] EXCEPT !.opacity = OpacityFull]
                        ELSE nodes[n]],
          dom |-> dom, selectionIds |-> selectionIds]
    ELSE [nodes |-> [n \in DOMAIN nodes |->
                        IF n \in barSelection.bars
                        THEN [nodes[n] EXCEPT !.opacity =
                                 IF IsSelected(selectionIds.ids, nodes[n].selectionId)
                                 THEN OpacityFull ELSE Emphasis(n) \div 2]
                        ELSE nodes[n]],
          dom |-> dom, selectionIds |-> selectionIds]

\* The state syncSelectionState leaves behind: the rects with their styles, the
\* attached rects and the array it was passed.
SyncSelectionState(barSelection, selectionIds) ==
    IF ~barSelection.defined \/ ~selectionIds.defined
    THEN [nodes |-> nodes, dom |-> dom, selectionIds |-> selectionIds]
    ELSE IF Len(selectionIds.ids) = 0
    THEN [nodes |-> [n \in DOMAIN nodes |->
                        IF n \in SelectAllBar
                        THEN [nodes[n] EXCEPT !.opacity = OpacityFull]
                        ELSE nodes[n]],
          dom |-> dom, selectionIds |-> selectionIds]
    ELSE [nodes |-> [n \in DOMAIN nodes |->
                        IF n \in barSelection.bars
                        THEN [nodes[n] EXCEPT !.opacity =
                                 IF IsSelected(selectionIds.ids, nodes[n].selectionId)
                                 THEN OpacityFull ELSE OpacityDimmed]
                        ELSE nodes[n]],
          dom |-> dom, selectionIds |-> selectionIds]

\* The rects one render pass appends: one per category, in category order.
NewBars(data) == [i \in 1..Len(data) |-> <<gen + 1, i>>]

\* Variant: the rects are appended with a translucent style,
\* .style("opacity", 0.3).
NewNodesTranslucent(data) ==
    [n \in {<<gen + 1, i>> : i \in 1..Len(data)} |->
        [country |-> data[n[2]].country,
         value |-> data[n[2]].value,
         selectionId |-> CreateSelectionId(data, n[2]),
         opacity |-> 30]]

NewNodes(data) ==
    [n \in {<<gen + 1, i>> : i \in 1..Len(data)} |->
        [country |-> data[n[2]].country,
         value |-> data[n[2]].value,
         selectionId |-> CreateSelectionId(data, n[2]),
         opacity |-> NoStyle]]

\* Variant: the svg is not emptied first, so the new rects are appended after
\* the ones already there (which keep their styles).
UpdateKeepingBars(data) ==
    /\ gen < MaxRedraws
    /\ gen' = gen + 1
    /\ dom' = dom \o NewBars(data)
    /\ nodes' = nodes @@ NewNodes(data)
    /\ dataView' = data
    /\ UNCHANGED <<includes, pending, hostSel, nClicks, nResolved, nSyncs,
                   lastSync, before, calls>>

\* update(options) with a data view: remove every child of the svg, then append
\* one rect per category.
Update(data) ==
    /\ gen < MaxRedraws
    /\ gen' = gen + 1
    /\ dom' = NewBars(data)
    /\ nodes' = nodes @@ NewNodes(data)
    /\ dataView' = data
    /\ UNCHANGED <<includes, pending, hostSel, nClicks, nResolved, nSyncs,
                   lastSync, before, calls>>

\* update(options) without a data view: the svg is emptied, then
\* options.dataViews[0].categorical throws.
UpdateNoDataView ==
    /\ gen < MaxRedraws
    /\ gen' = gen + 1
    /\ dom' = <<>>
    /\ dataView' = <<>>
    /\ UNCHANGED <<includes, nodes, pending, hostSel, nClicks, nResolved, nSyncs,
                   lastSync, before, calls>>

\* Variant: the listener does not wait for the promise; it runs the synchronizer
\* at once on the selection set it already knows.
ClickSyncNow(k) ==
    /\ nClicks < MaxClicks
    /\ k \in DOMAIN dom
    /\ pending' = Append(pending, [selectionId |-> nodes[dom[k]].selectionId,
                                   clickGen |-> gen])
    /\ nClicks' = nClicks + 1
    /\ LET barSelection == Bars(SelectAllBar)
           after == SyncSelectionState(barSelection, IdList(hostSel))
       IN /\ nodes' = after.nodes
          /\ dom' = after.dom
          /\ lastSync' = [called |-> TRUE, barSelection |-> barSelection,
                          selectionIds |-> IdList(hostSel),
                          clickGen |-> gen, runGen |-> gen]
    /\ nSyncs' = nSyncs + 1
    /\ UNCHANGED <<includes, gen, dataView, hostSel, nResolved, before, calls>>

\* The click listener of the k-th bar: selectionManager.select(d.selectionId)
\* is called and its promise is left pending.
Click(k) ==
    /\ nClicks < MaxClicks
    /\ k \in DOMAIN dom
    /\ pending' = Append(pending, [selectionId |-> nodes[dom[k]].selectionId,
                                   clickGen |-> gen])
    /\ nClicks' = nClicks + 1
    /\ UNCHANGED <<includes, gen, dom, nodes, dataView, hostSel, nResolved, nSyncs,
                   lastSync, before, calls>>

\* Variant: the listener keeps the bars it found when the click happened and
\* hands those to the synchronizer.
ResolveStale(ids) ==
    /\ pending # <<>>
    /\ LET barSelection == Bars({n \in DOMAIN nodes : n[1] = Head(pending).clickGen})
           after == SyncSelectionState(barSelection, IdList(ids))
       IN /\ nodes' = after.nodes
          /\ dom' = after.dom
          /\ lastSync' = [called |-> TRUE, barSelection |-> barSelection,
                          selectionIds |-> IdList(ids),
                          clickGen |-> Head(pending).clickGen, runGen |-> gen]
          /\ hostSel' = after.selectionIds.ids
    /\ pending' = Tail(pending)
    /\ nResolved' = nResolved + 1
    /\ nSyncs' = nSyncs + 1
    /\ UNCHANGED <<includes, gen, dataView, nClicks, before, calls>>

\* The oldest select() promise is fulfilled with ids: the then-callback looks up
\* selectAll(".bar") and runs the synchronizer.
Resolve(ids) ==
    /\ pending # <<>>
    /\ LET barSelection == Bars(SelectAllBar)
           after == SyncSelectionState(barSelection, IdList(ids))
       IN /\ nodes' = after.nodes
          /\ dom' = after.dom
          /\ lastSync' = [called |-> TRUE, barSelection |-> barSelection,
                          selectionIds |-> IdList(ids),
                          clickGen |-> Head(pending).clickGen, runGen |-> gen]
          /\ hostSel' = after.selectionIds.ids
    /\ pending' = Tail(pending)
    /\ nResolved' = nResolved + 1
    /\ nSyncs' = nSyncs + 1
    /\ UNCHANGED <<includes, gen, dataView, nClicks, before, calls>>

\* The oldest select() promise is rejected: then() has no rejection handler.
Reject ==
    /\ pending # <<>>
    /\ pending' = Tail(pending)
    /\ UNCHANGED <<includes, gen, dom, nodes, dataView, hostSel, nClicks, nResolved,
                   nSyncs, lastSync, before, calls>>

\* The state after the constructor: an empty svg, nothing selected.
Init ==
    /\ includes \in SUBSET (Ids \X Ids)
    /\ gen = 0
    /\ dom = <<>>
    /\ nodes = <<>>
    /\ dataView = <<>>
    /\ pending = <<>>
    /\ hostSel = <<>>
    /\ nClicks = 0
    /\ nResolved = 0
    /\ nSyncs = 0
    /\ lastSync = NoSync
    /\ before = NoBefore
    /\ calls = 0

Next ==
    \/ \E data \in DataViews : Update(data)
    \/ UpdateNoDataView
    \/ \E k \in 1..MaxCats : Click(k)
    \/ \E ids \in SelectionSets : Resolve(ids)
    \/ Reject

Spec == Init /\ [][Next]_vars

\* ------------------------------------------------- the synchronizer alone
\* Opacity styles a bar may carry when the synchronizer is invoked.
PriorOpacities == {NoStyle, OpacityFull, OpacityDimmed, 30}

\* Arguments the synchronizer may be invoked with.
BarSelections == {UndefinedBars} \cup {Bars(b) : b \in SUBSET SelectAllBar}
IdLists == {UndefinedIds} \cup {IdList(s) : s \in SelectionSets}

\* One render pass has drawn some bars, which carry arbitrary opacity styles.
InitSync ==
    /\ includes \in SUBSET (Ids \X Ids)
    /\ gen = 1
    /\ \E data \in DataViews :
         \E op \in [1..Len(data) -> PriorOpacities] :
            /\ dataView = data
            /\ dom = [i \in 1..Len(data) |-> <<1, i>>]
            /\ nodes = [n \in {<<1, i>> : i \in 1..Len(data)} |->
                          [country |-> data[n[2]].country,
                           value |-> data[n[2]].value,
                           selectionId |-> CreateSelectionId(data, n[2]),
                           opacity |-> op[n[2]]]]
    /\ pending = <<>>
    /\ hostSel = <<>>
    /\ nClicks = 0
    /\ nResolved = 0
    /\ nSyncs = 0
    /\ lastSync = NoSync
    /\ before = NoBefore
    /\ calls = 0

\* this.syncSelectionState(barSelection, selectionIds), invoked directly.
Invoke(barSelection, selectionIds) ==
    LET after == SyncSelectionState(barSelection, selectionIds)
    IN /\ nodes' = after.nodes
       /\ dom' = after.dom
       /\ hostSel' = after.selectionIds.ids
       /\ lastSync' = [called |-> TRUE, barSelection |-> barSelection,
                       selectionIds |-> selectionIds, clickGen |-> gen, runGen |-> gen]
       /\ before' = [nodes |-> nodes, dom |-> dom]
       /\ nSyncs' = nSyncs + 1
       /\ calls' = calls + 1
       /\ UNCHANGED <<includes, gen, dataView, pending, nClicks, nResolved>>

\* A first invocation, on any arguments.
SyncOnce(barSelection, selectionIds) ==
    /\ calls = 0
    /\ Invoke(barSelection, selectionIds)

\* A second invocation, on the arguments of the first.
SyncAgain ==
    /\ calls = 1
    /\ Invoke(lastSync.barSelection, lastSync.selectionIds)

NextSync ==
    \/ \E b \in BarSelections : \E s \in IdLists : SyncOnce(b, s)
    \/ SyncAgain

SpecSync == InitSync /\ [][NextSync]_vars

\* ------------------------------------------------------------ properties
\* The opacity a set of rects shows rect n with.
EmphasisIn(ns, n) == IF ns[n].opacity = NoStyle THEN OpacityFull ELSE ns[n].opacity

\* The latest invocation had both arguments defined.
CalledDefined ==
    /\ lastSync.called
    /\ lastSync.barSelection.defined
    /\ lastSync.selectionIds.defined

\* C1: after syncSelectionState(M, S) with S not empty, a mark of M is fully
\* opaque iff some identifier s of S has s.includes(the mark's identifier), and
\* every other mark of M has opacity 0.5.
C1_SelectedIffContained ==
    (CalledDefined /\ Len(lastSync.selectionIds.ids) > 0) =>
        \A m \in lastSync.barSelection.bars :
            LET S == lastSync.selectionIds.ids
                contained == \E k \in 1..Len(S) : <<S[k], nodes[m].selectionId>> \in includes
            IN /\ contained => nodes[m].opacity = OpacityFull
               /\ ~contained => nodes[m].opacity = OpacityDimmed

\* A call with a non-empty S after which one mark of M is opaque and one dimmed.
C1_Witness ==
    /\ CalledDefined
    /\ Len(lastSync.selectionIds.ids) > 0
    /\ \E m1, m2 \in lastSync.barSelection.bars :
          /\ nodes[m1].opacity = OpacityFull
          /\ nodes[m2].opacity = OpacityDimmed
          /\ before.nodes[m1].opacity = 30

\* C2: after syncSelectionState(M, S) with S empty, every mark of M is fully
\* opaque, whatever opacity it had before.
C2_EmptySelectionResets ==
    (CalledDefined /\ Len(lastSync.selectionIds.ids) = 0) =>
        \A m \in lastSync.barSelection.bars : nodes[m].opacity = OpacityFull

\* A call with an empty S on a mark that was dimmed before and is opaque now.
C2_Witness ==
    /\ CalledDefined
    /\ Len(lastSync.selectionIds.ids) = 0
    /\ \E m \in lastSync.barSelection.bars :
          /\ before.nodes[m].opacity = OpacityDimmed
          /\ nodes[m].opacity = OpacityFull

\* C4: a call with an undefined mark collection or an undefined selection set
\* leaves the opacity of every mark as it was.
C4_UndefinedIsNoOp ==
    (lastSync.called /\ (~lastSync.barSelection.defined \/ ~lastSync.selectionIds.defined)) =>
        /\ DOMAIN nodes = DOMAIN before.nodes
        /\ \A n \in DOMAIN nodes : nodes[n].opacity = before.nodes[n].opacity

\* A call with an undefined mark collection and an empty selection set, on bars
\* that are not all opaque.
C4_Witness ==
    /\ lastSync.called
    /\ ~lastSync.barSelection.defined
    /\ lastSync.selectionIds.defined
    /\ lastSync.selectionIds.ids = <<>>
    /\ \E n \in DOMAIN nodes : nodes[n].opacity = OpacityDimmed

\* C6: syncSelectionState changes nothing but opacities: the marks, their
\* number, their labels, values and identifiers, and the selection set are the
\* same after the call as before it.
C6_OnlyOpacityChanges ==
    lastSync.called =>
        /\ dom = before.dom
        /\ DOMAIN nodes = DOMAIN before.nodes
        /\ \A n \in DOMAIN nodes :
              /\ nodes[n].country = before.nodes[n].country
              /\ nodes[n].value = before.nodes[n].value
              /\ nodes[n].selectionId = before.nodes[n].selectionId
        /\ lastSync.selectionIds.defined => hostSel = lastSync.selectionIds.ids

\* A call that changed the opacity of one of two marks.
C6_Witness ==
    /\ CalledDefined
    /\ Len(dom) = 2
    /\ \E n \in DOMAIN nodes : nodes[n].opacity # before.nodes[n].opacity

\* C7: a second invocation on the same (M, S) leaves every mark with the
\* opacity the first invocation gave it.
C7_Idempotent ==
    calls = 2 =>
        \A n \in DOMAIN nodes : EmphasisIn(nodes, n) = EmphasisIn(before.nodes, n)

\* Two invocations on a non-empty selection set that dims one mark of M.
C7_Witness ==
    /\ calls = 2
    /\ CalledDefined
    /\ Len(lastSync.selectionIds.ids) > 0
    /\ \E m \in lastSync.barSelection.bars : nodes[m].opacity = OpacityDimmed

\* The opacity the synchronizer's rule gives a mark with identifier id under the
\* selection set S.
RuleOpacity(S, id) ==
    IF S = <<>> THEN OpacityFull
    ELSE IF \E k \in 1..Len(S) : <<S[k], id>> \in includes THEN OpacityFull
    ELSE OpacityDimmed

\* C3: in every reachable state each rendered mark is shown with the opacity
\* the synchronizer's rule gives for the host's current selection set and the
\* mark's identifier.
C3_EmphasisFollowsSelection ==
    \A n \in Range(dom) : Emphasis(n) = RuleOpacity(hostSel, nodes[n].selectionId)

\* C5: the synchronizer runs once per fulfilled select() promise and never
\* without one, a promise is fulfilled only after the click that made it, and
\* an invocation never precedes the render pass of its click.
C5_SyncOnlyAfterResolution ==
    /\ nSyncs = nResolved
    /\ nResolved + Len(pending) <= nClicks
    /\ lastSync.called => lastSync.clickGen <= lastSync.runGen
    /\ \A i \in 1..Len(pending) : pending[i].clickGen <= gen

\* One click has been synchronized while a later one is still pending.
C5_Witness ==
    /\ nSyncs = 1
    /\ nClicks = 2
    /\ Len(pending) = 1

\* C8: every rendered mark is shown with opacity 1 or 0.5.
C8_TwoEmphasisValues ==
    \A n \in Range(dom) : Emphasis(n) = 100 \/ Emphasis(n) = 50

\* After a synchronization one rendered mark is opaque and another is dimmed.
C8_Witness ==
    /\ lastSync.called
    /\ \E n1, n2 \in Range(dom) :
          /\ nodes[n1].opacity = OpacityFull
          /\ nodes[n2].opacity = OpacityDimmed

\* C9: a redraw leaves exactly one mark per category of its data, in category
\* order, each a new node with the identifier built for its index and without
\* dimming; no earlier mark stays attached.
C9_RedrawRebuildsMarks ==
    [][gen' # gen =>
         /\ Len(dom') = Len(dataView')
         /\ \A i \in 1..Len(dom') :
               /\ dom'[i] \notin DOMAIN nodes
               /\ dom'[i] \notin Range(dom)
               /\ nodes'[dom'[i]].country = dataView'[i].country
               /\ nodes'[dom'[i]].value = dataView'[i].value
               /\ nodes'[dom'[i]].selectionId = dataView'[i].country
               /\ EmphasisIn(nodes', dom'[i]) = OpacityFull
         /\ \A i, j \in 1..Len(dom') : dom'[i] = dom'[j] => i = j]_vars

\* A second redraw has replaced a dimmed mark.
C9_Witness ==
    /\ gen = 2
    /\ dom # <<>>
    /\ \E n \in DOMAIN nodes : n \notin Range(dom) /\ nodes[n].opacity = OpacityDimmed

\* C10: when a promise is fulfilled after a redraw that followed its click, the
\* synchronizer gives every mark rendered now the opacity of its rule for the
\* resolved selection set, and changes no mark that a redraw removed.
C10_SyncUsesCurrentMarks ==
    [][(nSyncs' # nSyncs /\ lastSync'.clickGen < gen) =>
         /\ \A n \in Range(dom') :
               EmphasisIn(nodes', n) = RuleOpacity(hostSel', nodes'[n].selectionId)
         /\ \A n \in DOMAIN nodes : n \notin Range(dom) => nodes'[n] = nodes[n]]_vars

\* A click on a mark of the first render pass was synchronized after the second
\* pass, dimming one of the new marks.
C10_Witness ==
    /\ lastSync.called
    /\ lastSync.clickGen < lastSync.runGen
    /\ lastSync.runGen = gen
    /\ hostSel # <<>>
    /\ \E n \in Range(dom) : nodes[n].opacity = OpacityDimmed
    /\ \E n \in DOMAIN nodes : n \notin Range(dom)

====
